---- MODULE Spec2Model ----
(***************************************************************************)
(* Personal Finance Manager (src/app.py): the ledger and budget engine.    *)
(*                                                                         *)
(* The store is the SQLite database of init_db: the tables users,          *)
(* categories, transactions and budgets, each a set of rows.  Every        *)
(* function of app.py is an operator from a store (and arguments) to the   *)
(* store it commits and the value it returns or the exception it raises;   *)
(* every action applies one function to the current store.  For callers    *)
(* that run at the same time, the functions are also split into their      *)
(* statements (pc, frame), one committed statement per step.               *)
(*                                                                         *)
(* Text (TEXT columns that the code compares or parses) is a sequence of   *)
(* one-character strings, compared as SQLite's BINARY collation compares   *)
(* it.  Amounts are whole currency units (REAL values that are exact).     *)
(* The foreign keys of the schema are not enforced: no connection sets     *)
(* PRAGMA foreign_keys, and no function deletes a user or a category.      *)
(* A connection left open by an exception is taken to be closed (its       *)
(* uncommitted work rolled back) before the next call starts.              *)
(* The database file and the backup files are in files; the functions of   *)
(* the ledger run on a database file that holds the tables, and a call     *)
(* made while it does not is the action CallWithoutTables.                 *)
(***************************************************************************)
EXTENDS Integers, Sequences, FiniteSets, TLC

VARIABLES users, categories, transactions, budgets, last, pc, frame, files

vars == <<users, categories, transactions, budgets, last, pc, frame, files>>

tables == <<users, categories, transactions, budgets>>

-----------------------------------------------------------------------------
(* Bounds of the model. *)

\* the largest transaction id the store may hold
MaxTx == 2

\* the largest budget id the store may hold
MaxBudgets == 2

-----------------------------------------------------------------------------
(* Values. *)

\* SQL NULL / Python None in an INTEGER column; rowids start at 1
NULL == 0

\* Optional[...] arguments: None, or the value given
None == <<>>

Some(v) == <<v>>

IsNone(o) == o = <<>>

Val(o) == o[1]

Max(S) == CHOOSE x \in S : \A y \in S : y <= x

\* SUM(amount) over a set of rows
RECURSIVE SumAmount(_)
SumAmount(rows) ==
    IF rows = {} THEN 0
    ELSE LET r == CHOOSE x \in rows : TRUE IN r.amount + SumAmount(rows \ {r})

-----------------------------------------------------------------------------
(* Text: ordering, datetime.fromisoformat, date.isoformat. *)

Digits == {"0", "1", "2", "3", "4", "5", "6", "7", "8", "9"}

\* the code point of a character
Ord(ch) ==
    CASE ch = "-" -> 45
      [] ch = "0" -> 48 [] ch = "1" -> 49 [] ch = "2" -> 50 [] ch = "3" -> 51
      [] ch = "4" -> 52 [] ch = "5" -> 53 [] ch = "6" -> 54 [] ch = "7" -> 55
      [] ch = "8" -> 56 [] ch = "9" -> 57
      [] ch = ":" -> 58
      [] ch = "T" -> 84
      [] ch = "W" -> 87

\* a < b for TEXT values (memcmp, then the shorter one first)
TextLess(a, b) ==
    LET n == IF Len(a) <= Len(b) THEN Len(a) ELSE Len(b)
        diff == {i \in 1..n : a[i] # b[i]}
        k == CHOOSE i \in diff : \A j \in diff : i <= j
    IN  IF diff = {} THEN Len(a) < Len(b) ELSE Ord(a[k]) < Ord(b[k])

TextLeq(a, b) == a = b \/ TextLess(a, b)

DigitVal(ch) == Ord(ch) - 48

\* the number written by the digits s[i..j]
RECURSIVE Num(_, _, _)
Num(s, i, j) == IF j < i THEN 0 ELSE 10 * Num(s, i, j - 1) + DigitVal(s[j])

AllDigits(s, i, j) == \A k \in i..j : s[k] \in Digits

IsLeap(y) == (y % 4 = 0 /\ y % 100 # 0) \/ y % 400 = 0

DaysInMonth(y, m) ==
    IF m = 2 THEN (IF IsLeap(y) THEN 29 ELSE 28)
    ELSE IF m \in {4, 6, 9, 11} THEN 30 ELSE 31

ValidDate(y, m, d) == y >= 1 /\ m \in 1..12 /\ d \in 1..DaysInMonth(y, m)

\* HH:MM:SS
ValidTime(s, i) ==
    /\ AllDigits(s, i, i + 1) /\ s[i + 2] = ":"
    /\ AllDigits(s, i + 3, i + 4) /\ s[i + 5] = ":"
    /\ AllDigits(s, i + 6, i + 7)
    /\ Num(s, i, i + 1) <= 23 /\ Num(s, i + 3, i + 4) <= 59
    /\ Num(s, i + 6, i + 7) <= 59

\* the days before 1 January of year y, counted from 1 January of year 1
days_before_year(y) ==
    (y - 1) * 365 + (y - 1) \div 4 - (y - 1) \div 100 + (y - 1) \div 400

\* the days of year y before the first day of month m
RECURSIVE days_before_month(_, _)
days_before_month(y, m) ==
    IF m = 1 THEN 0 ELSE days_before_month(y, m - 1) + DaysInMonth(y, m - 1)

\* the weekday of 1 January of the year, Monday 0
first_weekday(year) == days_before_year(year) % 7

\* the Monday of ISO week 1 of the year, in days from 1 January of the year:
\* the week that holds the year's first Thursday
isoweek1monday(year) ==
    IF first_weekday(year) > 3 THEN 7 - first_weekday(year)
    ELSE 0 - first_weekday(year)

\* the calendar date <<year, month, day>> of day `day` (Monday 1) of ISO week
\* `week` of `year`, <<>> when there is no such week or day; the days of
\* week 1 before 1 January fall in December of the year before, the last
\* days of the last week in January of the year after
isoweek_to_gregorian(year, week, day) ==
    LET long == \/ first_weekday(year) = 3
                \/ first_weekday(year) = 2 /\ IsLeap(year)
        n == isoweek1monday(year) + (week - 1) * 7 + (day - 1)
        days == IF IsLeap(year) THEN 366 ELSE 365
        m == CHOOSE k \in 1..12 :
                 /\ days_before_month(year, k) <= n
                 /\ n < days_before_month(year, k) + DaysInMonth(year, k)
    IN  IF ~(week \in 1..52 \/ (week = 53 /\ long)) \/ day \notin 1..7
        THEN <<>>
        ELSE IF n < 0 THEN <<year - 1, 12, 32 + n>>
        ELSE IF n >= days THEN <<year + 1, 1, n - days + 1>>
        ELSE <<year, m, n - days_before_month(year, m) + 1>>

\* datetime.fromisoformat (Python 3.11 and later) on the forms YYYYMMDD,
\* YYYY-MM-DD, YYYY-MM-DD<sep>HH:MM:SS and YYYY-Www-D (day D of ISO week
\* ww); any other text of the model's alphabet is no ISO date and raises
\* ValueError.  second: the time of day
\* in seconds (0 when the text has no time).
fromisoformat(s) ==
    LET bad == [ok |-> FALSE, year |-> 0, month |-> 0, day |-> 0, second |-> 0]
        time == IF Len(s) = 19
                THEN (Num(s, 12, 13) * 60 + Num(s, 15, 16)) * 60 + Num(s, 18, 19)
                ELSE 0
        date(y, m, d) ==
            IF ValidDate(y, m, d)
            THEN [ok |-> TRUE, year |-> y, month |-> m, day |-> d, second |-> time]
            ELSE bad
        week == isoweek_to_gregorian(Num(s, 1, 4), Num(s, 7, 8), Num(s, 10, 10))
    IN  IF Len(s) = 8 /\ AllDigits(s, 1, 8)
        THEN date(Num(s, 1, 4), Num(s, 5, 6), Num(s, 7, 8))
        ELSE IF /\ Len(s) = 10
                /\ AllDigits(s, 1, 4) /\ s[5] = "-" /\ s[6] = "W"
                /\ AllDigits(s, 7, 8) /\ s[9] = "-" /\ AllDigits(s, 10, 10)
        THEN (IF week = <<>> THEN bad ELSE date(week[1], week[2], week[3]))
        ELSE IF /\ Len(s) \in {10, 19}
                /\ AllDigits(s, 1, 4) /\ s[5] = "-"
                /\ AllDigits(s, 6, 7) /\ s[8] = "-"
                /\ AllDigits(s, 9, 10)
                /\ (Len(s) = 19 => ValidTime(s, 12))
        THEN date(Num(s, 1, 4), Num(s, 6, 7), Num(s, 9, 10))
        ELSE bad

DigitChar(n) == <<"0", "1", "2", "3", "4", "5", "6", "7", "8", "9">>[n + 1]

\* date(year, month, 1).isoformat()
month_start(year, month) ==
    << DigitChar((year \div 1000) % 10), DigitChar((year \div 100) % 10),
       DigitChar((year \div 10) % 10), DigitChar(year % 10), "-",
       DigitChar(month \div 10), DigitChar(month % 10), "-", "0", "1" >>

\* the end of the month's interval: the first day of the next month
month_end(year, month) ==
    IF month = 12 THEN month_start(year + 1, 1)
    ELSE month_start(year, month + 1)

-----------------------------------------------------------------------------
(* The store and its statements. *)

\* the four tables of init_db, empty
init_db == [users |-> {}, categories |-> {}, transactions |-> {}, budgets |-> {}]

\* the store as the functions below take it
DB ==
    [users |-> users, categories |-> categories,
     transactions |-> transactions, budgets |-> budgets]

\* the rowid an INSERT gives a row of an INTEGER PRIMARY KEY table
lastrowid(rows) == IF rows = {} THEN 1 ELSE Max({r.id : r \in rows}) + 1

Ids(rows) == {r.id : r \in rows}

\* PBKDF2-HMAC-SHA256 of the password under the salt: a function of both
hash_password(password, salt) == <<password, salt>>

defaults == <<"Salary", "Food", "Rent", "Transport", "Entertainment", "Utilities", "Other">>

\* register on a table without UNIQUE(username)
register_no_unique(db, username, password, salt) ==
    LET user_id == lastrowid(db.users)
        first == lastrowid(db.categories)
    IN  [db |-> [db EXCEPT
             !.users = @ \cup {[id |-> user_id, username |-> username,
                                password_hash |-> hash_password(password, salt),
                                salt |-> salt]},
             !.categories = @ \cup
                 {[id |-> first + i - 1, user_id |-> user_id, name |-> defaults[i]] :
                      i \in 1..Len(defaults)}],
         ret |-> TRUE]

\* register: the user row and the seven default categories commit together,
\* or an IntegrityError (UNIQUE username, UNIQUE(user_id, name)) leaves the
\* store as it was and False is returned
register(db, username, password, salt) ==
    LET user_id == lastrowid(db.users)
        first == lastrowid(db.categories)
        clash ==
            \/ \E u \in db.users : u.username = username
            \/ \E c \in db.categories :
                  c.user_id = user_id /\ \E i \in 1..Len(defaults) : c.name = defaults[i]
    IN  IF clash THEN [db |-> db, ret |-> FALSE]
        ELSE [db |-> [db EXCEPT
                  !.users = @ \cup {[id |-> user_id, username |-> username,
                                     password_hash |-> hash_password(password, salt),
                                     salt |-> salt]},
                  !.categories = @ \cup
                      {[id |-> first + i - 1, user_id |-> user_id, name |-> defaults[i]] :
                           i \in 1..Len(defaults)}],
              ret |-> TRUE]

\* verify_password that compares the salts, not the hashes
verify_password_salt_only(stored_hash, stored_salt, password_attempt) ==
    hash_password(password_attempt, stored_salt)[2] = stored_hash[2]

\* verify_password: the hash of the attempt under the stored salt is the
\* stored hash
verify_password(stored_hash, stored_salt, password_attempt) ==
    hash_password(password_attempt, stored_salt) = stored_hash

\* login: the id of the user of that name when the password verifies, else
\* None; cause is the message printed
login(db, username, password) ==
    LET rows == {u \in db.users : u.username = username}
        row == CHOOSE u \in rows : TRUE
    IN  IF rows = {} THEN [ret |-> None, cause |-> "No such user."]
        ELSE IF verify_password(row.password_hash, row.salt, password)
        THEN [ret |-> Some(row.id), cause |-> "Logged in"]
        ELSE [ret |-> None, cause |-> "Incorrect password."]

\* insert_category as INSERT OR REPLACE: the row of the key is replaced by a
\* new row
insert_category_or_replace(db, user_id, name) ==
    LET id == lastrowid(db.categories)
        same == {c \in db.categories : c.user_id = user_id /\ c.name = name}
    IN  [ok |-> TRUE,
         db |-> [db EXCEPT !.categories =
                     (@ \ same) \cup {[id |-> id, user_id |-> user_id, name |-> name]}],
         id |-> id]

\* insert_category on a table without UNIQUE(user_id, name)
insert_category_no_unique(db, user_id, name) ==
    LET id == lastrowid(db.categories)
    IN  [ok |-> TRUE,
         db |-> [db EXCEPT !.categories =
                     @ \cup {[id |-> id, user_id |-> user_id, name |-> name]}],
         id |-> id]

\* INSERT INTO categories under UNIQUE(user_id, name): the row is committed, or
\* the statement fails with IntegrityError
insert_category(db, user_id, name) ==
    IF \E c \in db.categories : c.user_id = user_id /\ c.name = name
    THEN [ok |-> FALSE, db |-> db, id |-> NULL]
    ELSE LET id == lastrowid(db.categories)
         IN  [ok |-> TRUE,
              db |-> [db EXCEPT !.categories =
                          @ \cup {[id |-> id, user_id |-> user_id, name |-> name]}],
              id |-> id]

\* select_category by the name alone: the first row of the name, of any user
select_category_by_name(db, user_id, name) ==
    LET ids == {c.id : c \in {x \in db.categories : x.name = name}}
    IN  CHOOSE i \in ids : \A j \in ids : i <= j

\* SELECT id FROM categories WHERE user_id = ? AND name = ?
select_category(db, user_id, name) ==
    (CHOOSE c \in db.categories : c.user_id = user_id /\ c.name = name).id

\* add_category: insert, or on IntegrityError fetch the existing row's id
add_category(db, user_id, name) ==
    LET ins == insert_category(db, user_id, name)
    IN  IF ins.ok THEN [db |-> ins.db, id |-> ins.id]
        ELSE [db |-> db, id |-> select_category(db, user_id, name)]

\* Python truthiness of an Optional[str]
Truthy(category) == ~IsNone(category) /\ Val(category) # ""

\* get_budget: the amount, or None
get_budget(db, user_id, category_id, month, year) ==
    LET rows == {b \in db.budgets :
                    /\ b.user_id = user_id /\ b.category_id = category_id
                    /\ b.month = month /\ b.year = year}
    IN  IF rows = {} THEN None ELSE Some((CHOOSE b \in rows : TRUE).amount)

\* WHERE occurred_at >= start AND occurred_at < end
in_interval(occurred_at, start, end) ==
    TextLeq(start, occurred_at) /\ TextLess(occurred_at, end)

\* the rows check_budget_notify sums
budget_rows(db, user_id, category_id, month, year) ==
    LET start == month_start(year, month)
        end == month_end(year, month)
    IN  {t \in db.transactions :
            /\ t.user_id = user_id /\ t.category_id = category_id
            /\ t.type = "expense" /\ in_interval(t.occurred_at, start, end)}

\* check_budget_notify: "alert" when the budget alert is printed, "none" when
\* it is not, "ValueError" when occurred_at_iso is no ISO date
check_budget_notify(db, user_id, category_id, occurred_at_iso) ==
    LET occurred == fromisoformat(occurred_at_iso)
        budget_amount == get_budget(db, user_id, category_id, occurred.month, occurred.year)
        total == SumAmount(budget_rows(db, user_id, category_id,
                                       occurred.month, occurred.year))
    IN  IF ~occurred.ok THEN "ValueError"
        ELSE IF IsNone(budget_amount) THEN "none"
        ELSE IF total > Val(budget_amount) THEN "alert"
        ELSE "none"

\* INSERT INTO transactions under CHECK(type IN ('income','expense')) and
\* CHECK(amount >= 0); created_at is datetime.utcnow().isoformat()
insert_transaction(db, user_id, tx_type, amount, category_id, note, occurred_at, now) ==
    IF tx_type \notin {"income", "expense"} \/ amount < 0
    THEN [ok |-> FALSE, db |-> db, id |-> NULL]
    ELSE LET id == lastrowid(db.transactions)
         IN  [ok |-> TRUE,
              db |-> [db EXCEPT !.transactions =
                          @ \cup {[id |-> id, user_id |-> user_id, type |-> tx_type,
                                   amount |-> amount, category_id |-> category_id,
                                   note |-> note, occurred_at |-> occurred_at,
                                   created_at |-> now]}],
              id |-> id]

\* add_transaction with the budget checked before the row is inserted
add_transaction_check_first(db, user_id, tx_type, amount, category, note, occurred_at, now) ==
    IF tx_type \notin {"income", "expense"}
    THEN [db |-> db, exc |-> "ValueError", ret |-> NULL, alert |-> FALSE]
    ELSE LET occ == IF IsNone(occurred_at) THEN now ELSE Val(occurred_at)
             cat == IF Truthy(category) THEN add_category(db, user_id, Val(category))
                    ELSE [db |-> db, id |-> NULL]
             chk == IF tx_type = "expense" /\ cat.id # NULL
                    THEN check_budget_notify(cat.db, user_id, cat.id, occ)
                    ELSE "none"
             ins == insert_transaction(cat.db, user_id, tx_type, amount, cat.id, note, occ, now)
         IN  IF chk = "ValueError"
             THEN [db |-> cat.db, exc |-> "ValueError", ret |-> NULL, alert |-> FALSE]
             ELSE IF ~ins.ok
             THEN [db |-> cat.db, exc |-> "IntegrityError", ret |-> NULL, alert |-> FALSE]
             ELSE [db |-> ins.db, exc |-> "none", ret |-> ins.id, alert |-> chk = "alert"]

\* add_transaction; now is datetime.utcnow().isoformat()
add_transaction(db, user_id, tx_type, amount, category, note, occurred_at, now) ==
    IF tx_type \notin {"income", "expense"}
    THEN [db |-> db, exc |-> "ValueError", ret |-> NULL, alert |-> FALSE]
    ELSE LET occ == IF IsNone(occurred_at) THEN now ELSE Val(occurred_at)
             cat == IF Truthy(category) THEN add_category(db, user_id, Val(category))
                    ELSE [db |-> db, id |-> NULL]
             ins == insert_transaction(cat.db, user_id, tx_type, amount, cat.id, note, occ, now)
             chk == IF tx_type = "expense" /\ cat.id # NULL
                    THEN check_budget_notify(ins.db, user_id, cat.id, occ)
                    ELSE "none"
         IN  IF ~ins.ok
             THEN [db |-> cat.db, exc |-> "IntegrityError", ret |-> NULL, alert |-> FALSE]
             ELSE IF chk = "ValueError"
             THEN [db |-> ins.db, exc |-> "ValueError", ret |-> NULL, alert |-> FALSE]
             ELSE [db |-> ins.db, exc |-> "none", ret |-> ins.id, alert |-> chk = "alert"]

\* the kwargs of update_transaction: each key None (not given, or given as
\* None) or a value; created_at stands for the keys that are not in allowed
NoKwargs ==
    [type |-> None, amount |-> None, category |-> None, note |-> None,
     occurred_at |-> None, created_at |-> None]

\* allowed = {"type", "amount", "category", "note", "occurred_at"}
allowed == {"type", "amount", "category", "note", "occurred_at"}

\* update_transaction with the row fetched by id alone
update_transaction_any_owner(db, user_id, tx_id, kwargs) ==
    LET updates == {k \in allowed : ~IsNone(kwargs[k])}
        owned == {t \in db.transactions : t.id = tx_id}
        cat == IF "category" \in updates
               THEN add_category(db, user_id, Val(kwargs.category))
               ELSE [db |-> db, id |-> NULL]
        set(k, v) == IF k \in updates THEN Val(kwargs[k]) ELSE v
        old == CHOOSE t \in owned : TRUE
        new == [old EXCEPT
                   !.type = set("type", @),
                   !.amount = set("amount", @),
                   !.category_id = IF "category" \in updates THEN cat.id ELSE @,
                   !.note = IF "note" \in updates THEN kwargs.note ELSE @,
                   !.occurred_at = set("occurred_at", @)]
    IN  IF updates = {} THEN [db |-> db, exc |-> "none", ret |-> FALSE]
        ELSE IF owned = {} THEN [db |-> db, exc |-> "none", ret |-> FALSE]
        ELSE IF new.type \notin {"income", "expense"} \/ new.amount < 0
        THEN [db |-> cat.db, exc |-> "IntegrityError", ret |-> FALSE]
        ELSE [db |-> [cat.db EXCEPT !.transactions = (@ \ {old}) \cup {new}],
              exc |-> "none", ret |-> TRUE]

\* update_transaction on a table without the CHECKs
update_transaction_unchecked(db, user_id, tx_id, kwargs) ==
    LET updates == {k \in allowed : ~IsNone(kwargs[k])}
        owned == {t \in db.transactions : t.id = tx_id /\ t.user_id = user_id}
        cat == IF "category" \in updates
               THEN add_category(db, user_id, Val(kwargs.category))
               ELSE [db |-> db, id |-> NULL]
        set(k, v) == IF k \in updates THEN Val(kwargs[k]) ELSE v
        old == CHOOSE t \in owned : TRUE
        new == [old EXCEPT
                   !.type = set("type", @),
                   !.amount = set("amount", @),
                   !.category_id = IF "category" \in updates THEN cat.id ELSE @,
                   !.note = IF "note" \in updates THEN kwargs.note ELSE @,
                   !.occurred_at = set("occurred_at", @)]
    IN  IF updates = {} THEN [db |-> db, exc |-> "none", ret |-> FALSE]
        ELSE IF owned = {} THEN [db |-> db, exc |-> "none", ret |-> FALSE]
        ELSE [db |-> [cat.db EXCEPT !.transactions = (@ \ {old}) \cup {new}],
              exc |-> "none", ret |-> TRUE]

\* update_transaction without the filter on allowed: every key given is set
update_transaction_every_key(db, user_id, tx_id, kwargs) ==
    LET updates == {k \in DOMAIN kwargs : ~IsNone(kwargs[k])}
        owned == {t \in db.transactions : t.id = tx_id /\ t.user_id = user_id}
        cat == IF "category" \in updates
               THEN add_category(db, user_id, Val(kwargs.category))
               ELSE [db |-> db, id |-> NULL]
        set(k, v) == IF k \in updates THEN Val(kwargs[k]) ELSE v
        old == CHOOSE t \in owned : TRUE
        new == [old EXCEPT
                   !.type = set("type", @),
                   !.amount = set("amount", @),
                   !.category_id = IF "category" \in updates THEN cat.id ELSE @,
                   !.note = IF "note" \in updates THEN kwargs.note ELSE @,
                   !.occurred_at = set("occurred_at", @),
                   !.created_at = set("created_at", @)]
    IN  IF updates = {} THEN [db |-> db, exc |-> "none", ret |-> FALSE]
        ELSE IF owned = {} THEN [db |-> db, exc |-> "none", ret |-> FALSE]
        ELSE IF new.type \notin {"income", "expense"} \/ new.amount < 0
        THEN [db |-> cat.db, exc |-> "IntegrityError", ret |-> FALSE]
        ELSE [db |-> [cat.db EXCEPT !.transactions = (@ \ {old}) \cup {new}],
              exc |-> "none", ret |-> TRUE]

\* update_transaction: the keys of allowed that are not None are set on the
\* caller's row, the category by the id add_category gives for its name; the
\* UPDATE is under the CHECKs of the table
update_transaction(db, user_id, tx_id, kwargs) ==
    LET updates == {k \in allowed : ~IsNone(kwargs[k])}
        owned == {t \in db.transactions : t.id = tx_id /\ t.user_id = user_id}
        cat == IF "category" \in updates
               THEN add_category(db, user_id, Val(kwargs.category))
               ELSE [db |-> db, id |-> NULL]
        set(k, v) == IF k \in updates THEN Val(kwargs[k]) ELSE v
        old == CHOOSE t \in owned : TRUE
        new == [old EXCEPT
                   !.type = set("type", @),
                   !.amount = set("amount", @),
                   !.category_id = IF "category" \in updates THEN cat.id ELSE @,
                   !.note = IF "note" \in updates THEN kwargs.note ELSE @,
                   !.occurred_at = set("occurred_at", @)]
    IN  IF updates = {} THEN [db |-> db, exc |-> "none", ret |-> FALSE]
        ELSE IF owned = {} THEN [db |-> db, exc |-> "none", ret |-> FALSE]
        ELSE IF new.type \notin {"income", "expense"} \/ new.amount < 0
        THEN [db |-> cat.db, exc |-> "IntegrityError", ret |-> FALSE]
        ELSE [db |-> [cat.db EXCEPT !.transactions = (@ \ {old}) \cup {new}],
              exc |-> "none", ret |-> TRUE]

\* delete_transaction
delete_transaction(db, user_id, tx_id) ==
    LET hit == {t \in db.transactions : t.id = tx_id /\ t.user_id = user_id}
    IN  [db |-> [db EXCEPT !.transactions = @ \ hit], ret |-> hit # {}]

\* every sequence that lists the elements of S once each
RECURSIVE Orderings(_)
Orderings(S) ==
    IF S = {} THEN {<<>>}
    ELSE UNION {{<<x>> \o s : s \in Orderings(S \ {x})} : x \in S}

Min(a, b) == IF a <= b THEN a ELSE b

\* c.name of LEFT JOIN categories c ON t.category_id = c.id: None when no row joins
joined_name(db, category_id) ==
    LET cs == {c \in db.categories : c.id = category_id}
    IN  IF cs = {} THEN None ELSE Some((CHOOSE c \in cs : TRUE).name)

\* list_transactions with ORDER BY occurred_at ascending
list_transactions_oldest_first(db, user_id, limit) ==
    LET rows == {[id |-> t.id, type |-> t.type, amount |-> t.amount,
                  category |-> joined_name(db, t.category_id),
                  note |-> t.note, occurred_at |-> t.occurred_at] :
                     t \in {x \in db.transactions : x.user_id = user_id}}
        sorted == {s \in Orderings(rows) :
                      \A i \in 1..(Len(s) - 1) :
                          ~TextLess(s[i + 1].occurred_at, s[i].occurred_at)}
    IN  {SubSeq(s, 1, Min(limit, Len(s))) : s \in sorted}

\* list_transactions: the results the query may give (rows of equal
\* occurred_at come in any order)
list_transactions(db, user_id, limit) ==
    LET rows == {[id |-> t.id, type |-> t.type, amount |-> t.amount,
                  category |-> joined_name(db, t.category_id),
                  note |-> t.note, occurred_at |-> t.occurred_at] :
                     t \in {x \in db.transactions : x.user_id = user_id}}
        sorted == {s \in Orderings(rows) :
                      \A i \in 1..(Len(s) - 1) :
                          ~TextLess(s[i].occurred_at, s[i + 1].occurred_at)}
    IN  {SubSeq(s, 1, Min(limit, Len(s))) : s \in sorted}

\* upsert_budget with ON CONFLICT ... DO NOTHING
upsert_budget_do_nothing(db, user_id, category_id, amount, month, year) ==
    LET same == {b \in db.budgets :
                    /\ b.user_id = user_id /\ b.category_id = category_id
                    /\ b.month = month /\ b.year = year}
    IN  IF same = {}
        THEN [db EXCEPT !.budgets =
                  @ \cup {[id |-> lastrowid(db.budgets), user_id |-> user_id,
                           category_id |-> category_id, amount |-> amount,
                           month |-> month, year |-> year]}]
        ELSE db

\* upsert_budget as a plain INSERT on a table without the UNIQUE key
upsert_budget_insert(db, user_id, category_id, amount, month, year) ==
    [db EXCEPT !.budgets =
         @ \cup {[id |-> lastrowid(db.budgets), user_id |-> user_id,
                  category_id |-> category_id, amount |-> amount,
                  month |-> month, year |-> year]}]

\* INSERT INTO budgets ... ON CONFLICT(user_id, category_id, month, year)
\* DO UPDATE SET amount = excluded.amount
upsert_budget(db, user_id, category_id, amount, month, year) ==
    LET same == {b \in db.budgets :
                    /\ b.user_id = user_id /\ b.category_id = category_id
                    /\ b.month = month /\ b.year = year}
    IN  IF same = {}
        THEN [db EXCEPT !.budgets =
                  @ \cup {[id |-> lastrowid(db.budgets), user_id |-> user_id,
                           category_id |-> category_id, amount |-> amount,
                           month |-> month, year |-> year]}]
        ELSE [db EXCEPT !.budgets =
                  (@ \ same) \cup {[b EXCEPT !.amount = amount] : b \in same}]

\* set_budget: the category is resolved (and committed), then the budget row
\* is upserted under CHECK(amount >= 0)
set_budget(db, user_id, category, amount, month, year) ==
    LET cat == add_category(db, user_id, category)
    IN  IF amount < 0 THEN [db |-> cat.db, exc |-> "IntegrityError", ret |-> FALSE]
        ELSE [db |-> upsert_budget(cat.db, user_id, cat.id, amount, month, year),
              exc |-> "none", ret |-> TRUE]

\* the user's rows of a month's interval
month_rows(db, user_id, month, year) ==
    LET start == month_start(year, month)
        end == month_end(year, month)
    IN  {t \in db.transactions :
            t.user_id = user_id /\ in_interval(t.occurred_at, start, end)}

\* report_totals with the totals dictionary left without its 0.0 entries: a
\* type with no row has no total (shown as -1), and the savings lack it
report_totals_no_default(rows) ==
    LET total(ty) ==
            IF \E t \in rows : t.type = ty
            THEN SumAmount({t \in rows : t.type = ty}) ELSE -1
    IN  [income |-> total("income"), expense |-> total("expense"),
         savings |-> total("income") - total("expense")]

\* totals of report_monthly: 0.0 for a type with no row, else SUM(amount) of
\* GROUP BY type; savings = income - expense
report_totals(rows) ==
    LET total(ty) ==
            IF \E t \in rows : t.type = ty
            THEN SumAmount({t \in rows : t.type = ty}) ELSE 0
    IN  [income |-> total("income"), expense |-> total("expense"),
         savings |-> total("income") - total("expense")]

\* expense_by_category of report_monthly: GROUP BY c.name ORDER BY total DESC
\* (groups of equal total come in any order), a NULL or empty name shown as
\* "Uncategorized"
expense_breakdown(db, rows) ==
    LET exp == {t \in rows : t.type = "expense"}
        names == {joined_name(db, t.category_id) : t \in exp}
        groups == {[name |-> n,
                    total |-> SumAmount({t \in exp : joined_name(db, t.category_id) = n})] :
                       n \in names}
        label(n) == IF IsNone(n) \/ Val(n) = "" THEN "Uncategorized" ELSE Val(n)
        sorted == {s \in Orderings(groups) :
                      \A i \in 1..(Len(s) - 1) : s[i].total >= s[i + 1].total}
    IN  {[i \in 1..Len(s) |-> <<label(s[i].name), s[i].total>>] : s \in sorted}

\* report_monthly: the reports the two queries may give
report_monthly(db, user_id, month, year) ==
    LET rows == month_rows(db, user_id, month, year)
    IN  {[period |-> SubSeq(month_start(year, month), 1, 7),
          totals |-> report_totals(rows),
          expense_by_category |-> bd] : bd \in expense_breakdown(db, rows)}

\* report_yearly: the totals of the user's rows with
\* date(year, 1, 1).isoformat() <= occurred_at < date(year + 1, 1, 1).isoformat()
\* as TEXT
report_yearly(db, user_id, year) ==
    LET start == month_start(year, 1)
        end == month_start(year + 1, 1)
        rows == {t \in db.transactions :
                    t.user_id = user_id /\ in_interval(t.occurred_at, start, end)}
    IN  [period |-> SubSeq(start, 1, 4), totals |-> report_totals(rows)]

-----------------------------------------------------------------------------
(* Files: the database file DB_FILENAME and the backups.  files.store is
   "ok" when the database file holds the tables, "missing" when there is no
   such file, "empty" when the file has no table (sqlite3.connect creates it
   so); the tables are then empty.  files.backups[path] is None when there is
   no file at the path, else its content: schema (it holds the tables) and
   db.  files.taken[path] is the store as it was when backup_db last wrote
   the path (kept for the claims). *)

\* the paths backups are written to
Paths == {"bk1"}

NoFiles ==
    [store |-> "ok", backups |-> [p \in Paths |-> None], taken |-> [p \in Paths |-> None]]

\* backup_db: shutil.copy2(DB_FILENAME, backup_path)
backup_db(db, store, backups, backup_path) ==
    IF store = "missing" THEN [exc |-> "FileNotFoundError", backups |-> backups]
    ELSE [exc |-> "none",
          backups |-> [backups EXCEPT ![backup_path] =
                           Some([schema |-> store = "ok", db |-> db])]]

\* restore_db that copies only when the database file is missing
restore_db_if_missing(db, store, backups, backup_path) ==
    IF IsNone(backups[backup_path])
    THEN [exc |-> "FileNotFoundError", store |-> store, db |-> db]
    ELSE IF store # "missing" THEN [exc |-> "none", store |-> store, db |-> db]
    ELSE [exc |-> "none",
          store |-> IF Val(backups[backup_path]).schema THEN "ok" ELSE "empty",
          db |-> Val(backups[backup_path]).db]

\* restore_db: shutil.copy2(backup_path, DB_FILENAME)
restore_db(db, store, backups, backup_path) ==
    IF IsNone(backups[backup_path])
    THEN [exc |-> "FileNotFoundError", store |-> store, db |-> db]
    ELSE [exc |-> "none",
          store |-> IF Val(backups[backup_path]).schema THEN "ok" ELSE "empty",
          db |-> Val(backups[backup_path]).db]

-----------------------------------------------------------------------------
(* Calls: one action a function of app.py, applied to the store. *)

\* the record of a call: the function, its arguments, the exception it raised
\* ("none" when it returned) and the value it returned; alert: the budget alert
\* was printed; created: the call inserted the category it resolved; prev: what
\* the call found or followed (see the actions that set it)
Call(op, args, exc, ret) ==
    [op |-> op, args |-> args, exc |-> exc, ret |-> ret,
     alert |-> FALSE, created |-> FALSE, prev |-> <<>>]

Commit(db) ==
    /\ users' = db.users
    /\ categories' = db.categories
    /\ transactions' = db.transactions
    /\ budgets' = db.budgets

\* the ids login can return: the callers of the ledger
UserIds == Ids(users)

\* datetime.utcnow().isoformat() at the calls of the run: 2025-06-20T10:00:00
NowText ==
    <<"2", "0", "2", "5", "-", "0", "6", "-", "2", "0", "T",
      "1", "0", ":", "0", "0", ":", "0", "0">>

Register(username, password, salt) ==
    LET r == register(DB, username, password, salt)
    IN  /\ Commit(r.db)
        /\ last' = Call("register", <<username, password>>, "none", r.ret)
        /\ files.store = "ok"
        /\ UNCHANGED <<pc, frame, files>>

\* prev: when the call before was the same call, the id it returned and
\* whether it inserted the row
AddCategory(user_id, name) ==
    LET r == add_category(DB, user_id, name)
        args == <<user_id, name>>
    IN  /\ Commit(r.db)
        /\ last' = [Call("add_category", args, "none", r.id) EXCEPT
                        !.created = r.db.categories # categories,
                        !.prev = IF last.op = "add_category" /\ last.args = args
                                 THEN <<last.ret, last.created>> ELSE <<>>]
        /\ files.store = "ok"
        /\ UNCHANGED <<pc, frame, files>>

AddTransaction(user_id, tx_type, amount, category, note, occurred_at) ==
    LET r == add_transaction(DB, user_id, tx_type, amount, category, note, occurred_at,
                             NowText)
    IN  /\ \A t \in r.db.transactions : t.id <= MaxTx
        /\ Commit(r.db)
        /\ last' = [Call("add_transaction",
                         <<user_id, tx_type, amount, category, note, occurred_at>>,
                         r.exc, r.ret) EXCEPT
                        !.alert = r.alert,
                        !.created = r.db.categories # categories]
        /\ files.store = "ok"
        /\ UNCHANGED <<pc, frame, files>>

UpdateTransaction(user_id, tx_id, kwargs) ==
    LET r == update_transaction(DB, user_id, tx_id, kwargs)
    IN  /\ Commit(r.db)
        /\ last' = [Call("update_transaction", <<user_id, tx_id, kwargs>>,
                         r.exc, r.ret) EXCEPT
                        !.created = r.db.categories # categories]
        /\ files.store = "ok"
        /\ UNCHANGED <<pc, frame, files>>

DeleteTransaction(user_id, tx_id) ==
    LET r == delete_transaction(DB, user_id, tx_id)
    IN  /\ Commit(r.db)
        /\ last' = Call("delete_transaction", <<user_id, tx_id>>, "none", r.ret)
        /\ files.store = "ok"
        /\ UNCHANGED <<pc, frame, files>>

\* prev: when the call before was an add_transaction of this user that
\* returned, the transaction id it returned
ListTransactions(user_id, limit) ==
    \E rows \in list_transactions(DB, user_id, limit) :
        /\ last' = [Call("list_transactions", <<user_id, limit>>, "none", rows) EXCEPT
                        !.prev = IF /\ last.op = "add_transaction"
                                    /\ last.exc = "none"
                                    /\ last.args[1] = user_id
                                 THEN <<last.ret>> ELSE <<>>]
        /\ files.store = "ok"
        /\ UNCHANGED <<users, categories, transactions, budgets, pc, frame, files>>

\* prev: the amount of the budget the call found for its key, when there was one
SetBudget(user_id, category, amount, month, year) ==
    LET r == set_budget(DB, user_id, category, amount, month, year)
        cat == add_category(DB, user_id, category)
    IN  /\ \A b \in r.db.budgets : b.id <= MaxBudgets
        /\ Commit(r.db)
        /\ last' = [Call("set_budget", <<user_id, category, amount, month, year>>,
                         r.exc, r.ret) EXCEPT
                        !.created = r.db.categories # categories,
                        !.prev = get_budget(DB, user_id, cat.id, month, year)]
        /\ files.store = "ok"
        /\ UNCHANGED <<pc, frame, files>>

ReportMonthly(user_id, month, year) ==
    \E rpt \in report_monthly(DB, user_id, month, year) :
        /\ last' = Call("report_monthly", <<user_id, month, year>>, "none", rpt)
        /\ files.store = "ok"
        /\ UNCHANGED <<users, categories, transactions, budgets, pc, frame, files>>

ReportYearly(user_id, year) ==
    /\ files.store = "ok"
    /\ last' = Call("report_yearly", <<user_id, year>>, "none",
                    report_yearly(DB, user_id, year))
    /\ UNCHANGED <<users, categories, transactions, budgets, pc, frame, files>>

\* prev: when the call before was a register of this username that returned
\* True, the password it registered
Login(username, password) ==
    LET r == login(DB, username, password)
    IN  /\ files.store = "ok"
        /\ last' = [Call("login", <<username, password>>, "none", r.ret) EXCEPT
                        !.prev = IF /\ last.op = "register" /\ last.ret = TRUE
                                    /\ last.args[1] = username
                                 THEN <<last.args[2]>> ELSE <<>>]
        /\ UNCHANGED <<users, categories, transactions, budgets, pc, frame, files>>

\* backup_db; files.taken keeps the store of the moment
BackupDb(backup_path) ==
    LET r == backup_db(DB, files.store, files.backups, backup_path)
    IN  /\ files' = [files EXCEPT
                        !.backups = r.backups,
                        !.taken = IF r.exc = "none"
                                  THEN [@ EXCEPT ![backup_path] =
                                            Some([store |-> files.store, db |-> DB])]
                                  ELSE @]
        /\ last' = Call("backup_db", <<backup_path>>, r.exc, NULL)
        /\ UNCHANGED <<users, categories, transactions, budgets, pc, frame>>

\* prev: what the database file was when the call started
RestoreDb(backup_path) ==
    LET r == restore_db(DB, files.store, files.backups, backup_path)
    IN  /\ Commit(r.db)
        /\ files' = [files EXCEPT !.store = r.store]
        /\ last' = [Call("restore_db", <<backup_path>>, r.exc, NULL) EXCEPT
                        !.prev = <<files.store>>]
        /\ UNCHANGED <<pc, frame>>

\* the loss of the store: os.remove(DB_FILENAME)
RemoveStore ==
    /\ files.store # "missing"
    /\ Commit(init_db)
    /\ files' = [files EXCEPT !.store = "missing"]
    /\ last' = Call("os.remove", <<>>, "none", NULL)
    /\ UNCHANGED <<pc, frame>>

\* a function of the ledger called while the database file is missing or
\* has no table: get_conn creates or opens the file, the first statement
\* raises sqlite3.OperationalError (no such table)
CallWithoutTables(op) ==
    /\ files.store # "ok"
    /\ files' = [files EXCEPT !.store = "empty"]
    /\ last' = Call(op, <<>>, "OperationalError", NULL)
    /\ UNCHANGED <<users, categories, transactions, budgets, pc, frame>>

-----------------------------------------------------------------------------
(* Concurrent callers.  Each process runs one call at a time, on connections
   of its own; a step is one statement with its commit, which SQLite makes
   atomic.  pc[p] is the statement process p is at, frame[p] the locals of its
   call and, once it returned, its result. *)

\* the processes
Procs == {1, 2}

\* op: the call; args: its arguments; category_id: the id add_category gave;
\* created: add_category inserted the row; absent: the key had no row when the
\* call started (kept for the claims); exc, ret, alert: as in last
Frame(op, args) ==
    [op |-> op, args |-> args, category_id |-> NULL, created |-> FALSE,
     absent |-> FALSE, exc |-> "none", ret |-> NULL, alert |-> FALSE]

NoFrame == Frame("none", <<>>)

\* the category name a call resolves
FrameName(f) == IF f.op = "add_transaction" THEN Val(f.args[4]) ELSE f.args[2]

\* a failed INSERT leaves its connection inside a transaction that holds the
\* write lock until conn.close(): another connection's write waits for it
write_locked(p) == \E q \in Procs \ {p} : pc[q] = "ac_select"

\* where a call goes on once add_category returned
after_category(op) ==
    CASE op = "add_transaction" -> "tx_insert"
      [] op = "set_budget" -> "budget_upsert"
      [] OTHER -> "idle"

Absent(user_id, name) ==
    ~\E c \in categories : c.user_id = user_id /\ c.name = name

CallAddCategory(p, user_id, name) ==
    /\ pc[p] = "idle"
    /\ pc' = [pc EXCEPT ![p] = "ac_insert"]
    /\ frame' = [frame EXCEPT ![p] =
                     [Frame("add_category", <<user_id, name>>) EXCEPT
                          !.absent = Absent(user_id, name)]]
    /\ UNCHANGED <<users, categories, transactions, budgets, last, files>>

\* add_category, the try block: INSERT and commit, or IntegrityError
CategoryInsert(p) ==
    LET f == frame[p]
        r == insert_category(DB, f.args[1], FrameName(f))
    IN  /\ pc[p] = "ac_insert" /\ ~write_locked(p)
        /\ IF r.ok
           THEN /\ Commit(r.db)
                /\ pc' = [pc EXCEPT ![p] = after_category(f.op)]
                /\ frame' = [frame EXCEPT ![p] =
                                 [f EXCEPT !.category_id = r.id, !.created = TRUE,
                                           !.ret = IF f.op = "add_category"
                                                   THEN r.id ELSE @]]
           ELSE /\ pc' = [pc EXCEPT ![p] = "ac_select"]
                /\ UNCHANGED <<users, categories, transactions, budgets, frame>>
        /\ UNCHANGED <<last, files>>

\* add_category, the except block: SELECT the existing row, close
CategorySelect(p) ==
    LET f == frame[p]
        id == select_category(DB, f.args[1], FrameName(f))
    IN  /\ pc[p] = "ac_select"
        /\ pc' = [pc EXCEPT ![p] = after_category(f.op)]
        /\ frame' = [frame EXCEPT ![p] =
                         [f EXCEPT !.category_id = id,
                                   !.ret = IF f.op = "add_category" THEN id ELSE @]]
        /\ UNCHANGED <<users, categories, transactions, budgets, last, files>>

\* add_transaction up to the INSERT: the type check, then add_category when a
\* category is given
CallAddTransaction(p, user_id, tx_type, amount, category, note, occurred_at) ==
    LET f == Frame("add_transaction",
                   <<user_id, tx_type, amount, category, note,
                     IF IsNone(occurred_at) THEN NowText ELSE Val(occurred_at)>>)
    IN  /\ pc[p] = "idle"
        /\ IF tx_type \notin {"income", "expense"}
           THEN /\ frame' = [frame EXCEPT ![p] = [f EXCEPT !.exc = "ValueError"]]
                /\ UNCHANGED pc
           ELSE IF Truthy(category)
           THEN /\ frame' = [frame EXCEPT ![p] =
                                 [f EXCEPT !.absent = Absent(user_id, Val(category))]]
                /\ pc' = [pc EXCEPT ![p] = "ac_insert"]
           ELSE /\ frame' = [frame EXCEPT ![p] = f]
                /\ pc' = [pc EXCEPT ![p] = "tx_insert"]
        /\ UNCHANGED <<users, categories, transactions, budgets, last, files>>

\* add_transaction: INSERT INTO transactions and commit
TransactionInsert(p) ==
    LET f == frame[p]
        r == insert_transaction(DB, f.args[1], f.args[2], f.args[3],
                                f.category_id, f.args[5], f.args[6], NowText)
    IN  /\ pc[p] = "tx_insert" /\ ~write_locked(p)
        /\ \A t \in r.db.transactions : t.id <= MaxTx
        /\ IF r.ok
           THEN /\ Commit(r.db)
                /\ frame' = [frame EXCEPT ![p] = [f EXCEPT !.ret = r.id]]
                /\ pc' = [pc EXCEPT ![p] =
                              IF f.args[2] = "expense" /\ f.category_id # NULL
                              THEN "tx_check" ELSE "idle"]
           ELSE /\ frame' = [frame EXCEPT ![p] = [f EXCEPT !.exc = "IntegrityError"]]
                /\ pc' = [pc EXCEPT ![p] = "idle"]
                /\ UNCHANGED <<users, categories, transactions, budgets>>
        /\ UNCHANGED <<last, files>>

\* add_transaction: check_budget_notify, return tx_id
BudgetCheck(p) ==
    LET f == frame[p]
        chk == check_budget_notify(DB, f.args[1], f.category_id, f.args[6])
    IN  /\ pc[p] = "tx_check"
        /\ pc' = [pc EXCEPT ![p] = "idle"]
        /\ frame' = [frame EXCEPT ![p] =
                         IF chk = "ValueError"
                         THEN [f EXCEPT !.exc = "ValueError", !.ret = NULL]
                         ELSE [f EXCEPT !.alert = chk = "alert"]]
        /\ UNCHANGED <<users, categories, transactions, budgets, last, files>>

\* set_budget up to the upsert: add_category
CallSetBudget(p, user_id, category, amount, month, year) ==
    /\ pc[p] = "idle"
    /\ pc' = [pc EXCEPT ![p] = "ac_insert"]
    /\ frame' = [frame EXCEPT ![p] =
                     [Frame("set_budget", <<user_id, category, amount, month, year>>)
                          EXCEPT !.absent = Absent(user_id, category)]]
    /\ UNCHANGED <<users, categories, transactions, budgets, last, files>>

\* set_budget: the upsert and commit
BudgetUpsert(p) ==
    LET f == frame[p]
        db == upsert_budget(DB, f.args[1], f.category_id, f.args[3], f.args[4], f.args[5])
    IN  /\ pc[p] = "budget_upsert" /\ ~write_locked(p)
        /\ \A b \in db.budgets : b.id <= MaxBudgets
        /\ pc' = [pc EXCEPT ![p] = "idle"]
        /\ IF f.args[3] < 0
           THEN /\ frame' = [frame EXCEPT ![p] = [f EXCEPT !.exc = "IntegrityError"]]
                /\ UNCHANGED <<users, categories, transactions, budgets>>
           ELSE /\ Commit(db)
                /\ frame' = [frame EXCEPT ![p] = [f EXCEPT !.ret = TRUE]]
        /\ UNCHANGED <<last, files>>

-----------------------------------------------------------------------------
(* The inputs of the calls. *)

\* 20250615: 15 June 2025 in the basic ISO format
BasicJune == <<"2", "0", "2", "5", "0", "6", "1", "5">>

\* 2025-07-01: the first day of the month after June 2025
July1 == <<"2", "0", "2", "5", "-", "0", "7", "-", "0", "1">>

\* 2025-W01-1: Monday of ISO week 1 of 2025, which is 30 December 2024
Week1 == <<"2", "0", "2", "5", "-", "W", "0", "1", "-", "1">>

\* 2025-6-15: no ISO date (the month is not zero-padded)
Malformed == <<"2", "0", "2", "5", "-", "6", "-", "1", "5">>

\* the default of list_transactions(user_id, limit=50)
DefaultLimit == 50

-----------------------------------------------------------------------------
(* Specifications. *)

Init ==
    /\ users = init_db.users
    /\ categories = init_db.categories
    /\ transactions = init_db.transactions
    /\ budgets = init_db.budgets
    /\ last = Call("init_db", <<>>, "none", NULL)
    /\ pc = [p \in Procs |-> "idle"]
    /\ frame = [p \in Procs |-> NoFrame]
    /\ files = NoFiles

\* One user's ledger and budget: incomes and expenses of 60 in the category
\* Food, dated now (June 2025), 15 June 2025 in the basic format and 1 July
\* 2025; the budget of Food for June 2025, at 100 or 120; lists and reports.
Next ==
    \/ Register("alice", "pw1", 1)
    \/ \E u \in UserIds, k \in {"income", "expense"},
          d \in {None, Some(BasicJune), Some(July1)} :
          AddTransaction(u, k, 60, Some("Food"), None, d)
    \/ \E u \in UserIds, id \in 1..MaxTx : DeleteTransaction(u, id)
    \/ \E u \in UserIds, a \in {100, 120} : SetBudget(u, "Food", a, 6, 2025)
    \/ \E u \in UserIds, limit \in {1, DefaultLimit} : ListTransactions(u, limit)
    \/ \E u \in UserIds, m \in {6, 7} : ReportMonthly(u, m, 2025)

Spec == Init /\ [][Next]_vars

\* One user's inputs, valid and not: categories that exist (Food) and do not
\* (Gym), an unknown type, a negative amount, a text that is no date, budgets
\* of two categories.
NextInputs ==
    \/ Register("alice", "pw1", 1)
    \/ \E u \in UserIds, n \in {"Food", "Gym"} : AddCategory(u, n)
    \/ \E u \in UserIds, k \in {"expense", "transfer"}, a \in {-1, 50},
          c \in {None, Some("Gym")}, d \in {None, Some(Malformed)} :
          AddTransaction(u, k, a, c, None, d)
    \/ \E u \in UserIds, c \in {"Food", "Gym"}, a \in {-1, 100, 110} :
          SetBudget(u, c, a, 6, 2025)

SpecInputs == Init /\ [][NextInputs]_vars

\* Two users and each other's transactions.
NextOwner ==
    \/ \E n \in {"alice", "bob"} : Register(n, "pw1", 1)
    \/ \E u \in UserIds : AddTransaction(u, "expense", 50, None, None, None)
    \/ \E u \in UserIds, id \in 1..MaxTx, c \in {None, Some("Gym")} :
          UpdateTransaction(u, id, [NoKwargs EXCEPT !.amount = Some(60), !.category = c])
    \/ \E u \in UserIds, id \in 1..MaxTx : DeleteTransaction(u, id)

SpecOwner == Init /\ [][NextOwner]_vars

\* the kwargs of the updates: nothing, one key, two keys, a key that is not
\* in allowed alone and with one that is
UpdateKwargs ==
    {NoKwargs,
     [NoKwargs EXCEPT !.type = Some("income")],
     [NoKwargs EXCEPT !.amount = Some(120)],
     [NoKwargs EXCEPT !.amount = Some(-5)],
     [NoKwargs EXCEPT !.category = Some("")],
     [NoKwargs EXCEPT !.category = Some("Gym")],
     [NoKwargs EXCEPT !.occurred_at = Some(July1)],
     [NoKwargs EXCEPT !.amount = Some(120), !.note = Some("lunch")],
     [NoKwargs EXCEPT !.created_at = Some(July1)],
     [NoKwargs EXCEPT !.amount = Some(120), !.created_at = Some(July1)]}

\* One user's expenses of 60 in the category Food, dated now (June 2025), the
\* budget of Food for June 2025 at 100, and updates of the first transaction;
\* negative amounts are offered to all three.
NextUpdate ==
    \/ Register("alice", "pw1", 1)
    \/ \E u \in UserIds, a \in {60, -5} :
          AddTransaction(u, "expense", a, Some("Food"), None, None)
    \/ \E u \in UserIds, a \in {100, -5} : SetBudget(u, "Food", a, 6, 2025)
    \/ \E u \in UserIds, kwargs \in UpdateKwargs : UpdateTransaction(u, 1, kwargs)

SpecUpdate == Init /\ [][NextUpdate]_vars

\* Registrations of alice and Alice, and of alice again under another
\* password; logins; incomes; backups, restores and the loss of the store.
NextAuth ==
    \/ \E n \in {"alice", "Alice"} : Register(n, "pw1", 1)
    \/ Register("alice", "pw2", 2)
    \/ \E n \in {"alice", "Alice", "bob"}, pw \in {"pw1", "pw2"} : Login(n, pw)
    \/ \E u \in UserIds : AddTransaction(u, "income", 50, Some("Other"), None, None)
    \/ \E path \in Paths : BackupDb(path)
    \/ \E path \in Paths : RestoreDb(path)
    \/ RemoveStore
    \/ CallWithoutTables("login")

SpecAuth == Init /\ [][NextAuth]_vars

\* One user's expenses of 200 and 300, dated now (June 2025), without a
\* category, in Food and in a category that the user names Uncategorized,
\* and the report of June 2025.
NextReport ==
    \/ Register("alice", "pw1", 1)
    \/ \E u \in UserIds, a \in {200, 300},
          c \in {None, Some("Food"), Some("Uncategorized")} :
          AddTransaction(u, "expense", a, c, None, None)
    \/ \E u \in UserIds : ReportMonthly(u, 6, 2025)

SpecReport == Init /\ [][NextReport]_vars

\* Two processes of one user: add_category, add_transaction and set_budget,
\* all on the category Gym, which the user does not have at first.
NextConc ==
    \/ Register("alice", "pw1", 1)
    \/ \E p \in Procs, u \in UserIds : CallAddCategory(p, u, "Gym")
    \/ \E p \in Procs, u \in UserIds :
          CallAddTransaction(p, u, "expense", 60, Some("Gym"), None, None)
    \/ \E p \in Procs, u \in UserIds : CallSetBudget(p, u, "Gym", 100, 6, 2025)
    \/ \E p \in Procs : CategoryInsert(p)
    \/ \E p \in Procs : CategorySelect(p)
    \/ \E p \in Procs : TransactionInsert(p)
    \/ \E p \in Procs : BudgetCheck(p)
    \/ \E p \in Procs : BudgetUpsert(p)

SpecConc == Init /\ [][NextConc]_vars

\* Incomes and expenses dated in the three forms, and the reports of the
\* years 2024 and 2025.
NextYear ==
    \/ Register("alice", "pw1", 1)
    \/ \E u \in UserIds, k \in {"income", "expense"},
          d \in {Some(BasicJune), Some(July1), Some(Week1)} :
          AddTransaction(u, k, 60, Some("Food"), None, d)
    \/ \E u \in UserIds, y \in {2024, 2025} : ReportYearly(u, y)

SpecYear == Init /\ [][NextYear]_vars

\* Two users, who both have the default category Food and both come to have
\* a category Gym: transactions and budgets of either in Food, and updates
\* by either user that move a transaction to Gym.
NextLink ==
    \/ \E n \in {"alice", "bob"} : Register(n, "pw1", 1)
    \/ \E u \in UserIds : AddTransaction(u, "expense", 50, Some("Food"), None, None)
    \/ \E u \in UserIds, id \in 1..MaxTx :
          UpdateTransaction(u, id, [NoKwargs EXCEPT !.category = Some("Gym")])
    \/ \E u \in UserIds : SetBudget(u, "Food", 100, 6, 2025)

SpecLink == Init /\ [][NextLink]_vars

\* Two processes of one user in set_budget for the category Gym, which the
\* user does not have at first, and June 2025, at 100 or 110.
NextRace ==
    \/ Register("alice", "pw1", 1)
    \/ \E p \in Procs, u \in UserIds, a \in {100, 110} :
          CallSetBudget(p, u, "Gym", a, 6, 2025)
    \/ \E p \in Procs : CategoryInsert(p)
    \/ \E p \in Procs : CategorySelect(p)
    \/ \E p \in Procs : BudgetUpsert(p)

\* A call that has started goes on: a statement that reads is run (WF); a
\* statement that writes waits for the write lock in SQLite's busy handler,
\* which tries again and again, and is run once the lock is free often
\* enough (SF).
FairRace ==
    \A p \in Procs :
        /\ SF_vars(CategoryInsert(p))
        /\ WF_vars(CategorySelect(p))
        /\ SF_vars(BudgetUpsert(p))

SpecRace == Init /\ [][NextRace]_vars /\ FairRace

-----------------------------------------------------------------------------
(* What the claims speak of. *)

\* the calendar month (month, year) contains the date that the text writes
OccursIn(occurred_at, month, year) ==
    LET d == fromisoformat(occurred_at)
    IN  d.ok /\ d.month = month /\ d.year = year

\* the stored row of transaction id (there is one)
TxRow(id) == CHOOSE t \in transactions : t.id = id

\* the user's expenses of a category in a calendar month, in total
Spent(user_id, category_id, month, year) ==
    SumAmount({t \in transactions :
                  /\ t.user_id = user_id /\ t.category_id = category_id
                  /\ t.type = "expense" /\ OccursIn(t.occurred_at, month, year)})

\* how many entries of a list result carry the id
Entries(rows, id) == Cardinality({i \in 1..Len(rows) : rows[i].id = id})

-----------------------------------------------------------------------------
(* C1 *)

\* C1 (as claimed): an add of an expense that returns signals an overage if and
\* only if a budget exists for (user, resolved category, month and year of
\* occurred_at) and the user's expenses of that category in that month, the
\* new one included, sum to strictly more than the cap.
C1_OverageIffOverCap ==
    (last.op = "add_transaction" /\ last.exc = "none" /\ last.args[2] = "expense") =>
        LET t == TxRow(last.ret)
            d == fromisoformat(t.occurred_at)
            cap == get_budget(DB, t.user_id, t.category_id, d.month, d.year)
        IN  last.alert <=>
                /\ ~IsNone(cap)
                /\ Spent(t.user_id, t.category_id, d.month, d.year) > Val(cap)

-----------------------------------------------------------------------------
(* C8 *)

-----------------------------------------------------------------------------
(* C9 *)

\* the user's transactions other than id that the list's order does not put
\* after it: their occurred_at is not older, as text
NotOlder(user_id, id) ==
    {t \in transactions :
        /\ t.user_id = user_id /\ t.id # id
        /\ ~TextLess(t.occurred_at, TxRow(id).occurred_at)}

\* C9 (as claimed): the list that follows an add of the same user holds
\* exactly one entry with the id the add returned, whatever the limit and the
\* user's other transactions.
C9_AddThenList ==
    (last.op = "list_transactions" /\ last.prev # <<>>) =>
        Entries(last.ret, last.prev[1]) = 1

\* C9 (amended): the list that follows an add of the same user never holds
\* more than one entry with the id the add returned, and holds exactly one
\* when fewer than limit of the user's other transactions are not older.
C9_AddThenListWithinLimit ==
    (last.op = "list_transactions" /\ last.prev # <<>>) =>
        /\ Entries(last.ret, last.prev[1]) <= 1
        /\ Cardinality(NotOlder(last.args[1], last.prev[1])) < last.args[2]
               => Entries(last.ret, last.prev[1]) = 1

\* a list cut by its limit that still holds the transaction just added
C9_Witness ==
    /\ last.op = "list_transactions" /\ last.prev # <<>>
    /\ last.args[2] = 1
    /\ Cardinality(transactions) = 2
    /\ Entries(last.ret, last.prev[1]) = 1

-----------------------------------------------------------------------------
(* C10 *)

\* the arguments of an add of a valid expense with a category
ValidExpense(args) ==
    /\ args[2] = "expense" /\ args[3] >= 0 /\ Truthy(args[4])
    /\ (IsNone(args[6]) \/ fromisoformat(Val(args[6])).ok)

\* C10: an add of a valid expense returns the id of a committed row and raises
\* nothing, over the budget or not, and the alert it gives is the overage check
\* of the store that holds the committed row.
C10_OverageNeverBlocks ==
    (last.op = "add_transaction" /\ ValidExpense(last.args)) =>
        /\ last.exc = "none"
        /\ \E t \in transactions :
              /\ t.id = last.ret /\ t.user_id = last.args[1]
              /\ t.type = "expense" /\ t.amount = last.args[3]
              /\ last.alert <=>
                    check_budget_notify(DB, t.user_id, t.category_id, t.occurred_at)
                        = "alert"

\* an add that went over the budget
C10_Witness ==
    /\ last.op = "add_transaction" /\ last.alert
    /\ last.exc = "none" /\ last.ret \in Ids(transactions)

-----------------------------------------------------------------------------
(* C2 *)

SameKey(b1, b2) ==
    /\ b1.user_id = b2.user_id /\ b1.category_id = b2.category_id
    /\ b1.month = b2.month /\ b1.year = b2.year

\* C2: no two budget rows share (user, category, month, year); a set_budget
\* that returns leaves exactly one row for its key, with its amount, adds no
\* row when the key had one, and leaves the rows of every other key as they
\* were; a set_budget that raises, and every other call, leaves the budgets
\* as they were.
C2_BudgetUpsert ==
    [][/\ \A b1, b2 \in budgets' : SameKey(b1, b2) => b1 = b2
       /\ IF last'.op = "set_budget" /\ last'.exc = "none"
          THEN LET key == [user_id |-> last'.args[1],
                           category_id |-> select_category(DB', last'.args[1], last'.args[2]),
                           month |-> last'.args[4], year |-> last'.args[5]]
               IN  /\ \E b \in budgets' :
                         /\ SameKey(b, key) /\ b.amount = last'.args[3]
                         /\ \A b2 \in budgets' : SameKey(b2, key) => b2 = b
                   /\ {b \in budgets' : ~SameKey(b, key)} = {b \in budgets : ~SameKey(b, key)}
                   /\ (\E b \in budgets : SameKey(b, key)) =>
                         Cardinality(budgets') = Cardinality(budgets)
          ELSE budgets' = budgets]_vars

\* a set_budget that replaced another amount while a budget of another key is
\* in the store
C2_Witness ==
    /\ last.op = "set_budget" /\ last.exc = "none"
    /\ last.prev # None /\ Val(last.prev) # last.args[3]
    /\ Cardinality(budgets) = 2
    /\ \E b \in budgets : b.amount = last.args[3] /\ b.id = 1

-----------------------------------------------------------------------------
(* C3 *)

\* C3: an add_category returns the id of the one category row of its (user,
\* name), and when the call before was the same call, the id that one
\* returned.
C3_ResolveIdempotent ==
    last.op = "add_category" =>
        LET rows == {c \in categories :
                        c.user_id = last.args[1] /\ c.name = last.args[2]}
        IN  /\ last.exc = "none"
            /\ Cardinality(rows) = 1
            /\ \A c \in rows : c.id = last.ret
            /\ last.prev # <<>> => last.ret = last.prev[1]

\* the second of two add_category calls, the first of which inserted the row
C3_Witness ==
    /\ last.op = "add_category" /\ last.prev # <<>>
    /\ last.prev[2] /\ ~last.created
    /\ last.ret = last.prev[1]

-----------------------------------------------------------------------------
(* C5 *)

\* C5: an update or a delete of a transaction that another user owns returns
\* False, raises nothing and leaves every table as it was.
C5_OwnershipIsolation ==
    [][(/\ last'.op \in {"update_transaction", "delete_transaction"}
        /\ \E t \in transactions :
              t.id = last'.args[2] /\ t.user_id # last'.args[1])
          => (last'.exc = "none" /\ last'.ret = FALSE /\ tables' = tables)]_vars

\* an update of another user's transaction that names a category the caller
\* does not have
C5_Witness ==
    /\ last.op = "update_transaction" /\ last.ret = FALSE
    /\ \E t \in transactions : t.id = last.args[2] /\ t.user_id # last.args[1]
    /\ last.args[3].category = Some("Gym")
    /\ ~\E c \in categories : c.user_id = last.args[1] /\ c.name = "Gym"

-----------------------------------------------------------------------------
(* C7 *)

\* the arguments of an add that fails validation
InvalidAdd(args) ==
    \/ args[2] \notin {"income", "expense"}
    \/ args[3] < 0
    \/ ~IsNone(args[6]) /\ ~fromisoformat(Val(args[6])).ok

\* C7 (as claimed): an add with an unknown type, a negative amount or a text
\* that is no date raises and leaves every table as it was.
C7_InvalidAddLeavesStore ==
    [][(last'.op = "add_transaction" /\ InvalidAdd(last'.args))
          => (last'.exc # "none" /\ tables' = tables)]_vars

-----------------------------------------------------------------------------
(* C4 *)

\* process p returned from an add_category
Returned(p) == pc[p] = "idle" /\ frame[p].op = "add_category"

\* C4: however the add_category calls of the processes interleave, no two
\* category rows share (user, name), and the calls that returned for the same
\* (user, name) returned the same id, the id of that row.
C4_ConcurrentResolve ==
    /\ \A c1, c2 \in categories :
          c1.user_id = c2.user_id /\ c1.name = c2.name => c1 = c2
    /\ \A p, q \in Procs :
          Returned(p) /\ Returned(q) /\ frame[p].args = frame[q].args
              => frame[p].ret = frame[q].ret
    /\ \A p \in Procs :
          Returned(p) =>
              \E c \in categories :
                  /\ c.id = frame[p].ret
                  /\ c.user_id = frame[p].args[1] /\ c.name = frame[p].args[2]

\* two add_category calls that both started while the key had no row: one
\* inserted it, the other met the conflict and read it
C4_Witness ==
    \E p, q \in Procs :
        /\ p # q /\ Returned(p) /\ Returned(q)
        /\ frame[p].args = frame[q].args
        /\ frame[p].absent /\ frame[q].absent
        /\ frame[p].created /\ ~frame[q].created
        /\ frame[p].ret = frame[q].ret

-----------------------------------------------------------------------------
(* C6 *)

\* C6 (as claimed): no state of the store has the category a call created
\* committed while that call's transaction insert or budget upsert is still to
\* be committed.
C6_NoHalfCommit ==
    \A p \in Procs :
        pc[p] \in {"tx_insert", "budget_upsert"} =>
            ~(/\ frame[p].created
              /\ \E c \in categories : c.id = frame[p].category_id)

-----------------------------------------------------------------------------
(* C11 *)

\* C11: an update that returns True leaves one row of its id, in which every
\* key of allowed that is given has the value given (the category: the id of
\* the caller's category of that name) and every other field, the id, the
\* owner and created_at among them, is as it was; every other transaction
\* row is as it was.
C11_UpdateFrame ==
    [][(last'.op = "update_transaction" /\ last'.ret = TRUE) =>
          LET kw == last'.args[3]
              old == CHOOSE t \in transactions : t.id = last'.args[2]
              new == CHOOSE t \in transactions' : t.id = last'.args[2]
              kept(k) == IF IsNone(kw[k]) THEN new[k] = old[k] ELSE new[k] = Val(kw[k])
          IN  /\ \E t \in transactions : t.id = last'.args[2]
              /\ \E t \in transactions' : t.id = last'.args[2]
              /\ kept("type") /\ kept("amount") /\ kept("occurred_at")
              /\ new.note = IF IsNone(kw.note) THEN old.note ELSE kw.note
              /\ IF IsNone(kw.category) THEN new.category_id = old.category_id
                 ELSE \E c \in categories' :
                         /\ c.id = new.category_id /\ c.user_id = last'.args[1]
                         /\ c.name = Val(kw.category)
              /\ new.id = old.id /\ new.user_id = old.user_id
              /\ new.created_at = old.created_at
              /\ transactions' \ {new} = transactions \ {old}]_vars

\* an update that returned True for a new amount and a created_at, on a store
\* with another transaction
C11_Witness ==
    /\ last.op = "update_transaction" /\ last.ret = TRUE
    /\ last.args[3].amount = Some(120) /\ last.args[3].created_at = Some(July1)
    /\ TxRow(last.args[2]).amount = 120
    /\ TxRow(last.args[2]).created_at = NowText
    /\ \E t \in transactions : t.id # last.args[2]

-----------------------------------------------------------------------------
(* C12 *)

\* C12 (as claimed): an update that returns True and gives the category as
\* the empty marker leaves its transaction without a category reference; one
\* that gives no category leaves the reference as it was.
C12_CategoryCleared ==
    [][(last'.op = "update_transaction" /\ last'.ret = TRUE) =>
          LET kw == last'.args[3]
              old == CHOOSE t \in transactions : t.id = last'.args[2]
              new == CHOOSE t \in transactions' : t.id = last'.args[2]
          IN  /\ kw.category = Some("") => new.category_id = NULL
              /\ IsNone(kw.category) => new.category_id = old.category_id]_vars

-----------------------------------------------------------------------------
(* C13 *)

\* the budget of the key, when there is one
Cap(user_id, category_id, month, year) ==
    get_budget(DB, user_id, category_id, month, year)

\* C13 (as claimed): an update that returns True and leaves its transaction
\* an expense with a category, the user's expenses of which in the month of
\* its occurred_at are over the budget, gives the budget alert.
C13_OverageOnUpdate ==
    (last.op = "update_transaction" /\ last.ret = TRUE) =>
        LET t == TxRow(last.args[2])
            d == fromisoformat(t.occurred_at)
            cap == Cap(t.user_id, t.category_id, d.month, d.year)
        IN  (/\ t.type = "expense" /\ t.category_id # NULL /\ d.ok
             /\ ~IsNone(cap)
             /\ Spent(t.user_id, t.category_id, d.month, d.year) > Val(cap))
                => last.alert

-----------------------------------------------------------------------------
(* C17 *)

\* C17: no stored transaction amount and no stored budget amount is negative.
C17_AmountsNonNegative ==
    /\ \A t \in transactions : t.amount >= 0
    /\ \A b \in budgets : b.amount >= 0

\* a transaction and a budget are stored, and the call before was an update
\* to a negative amount, which the table refused
C17_Witness ==
    /\ last.op = "update_transaction" /\ last.exc = "IntegrityError"
    /\ ~IsNone(last.args[3].amount) /\ Val(last.args[3].amount) < 0
    /\ \E t \in transactions : t.id = last.args[2] /\ t.user_id = last.args[1]
    /\ budgets # {}

-----------------------------------------------------------------------------
(* C14 *)

\* C14: no two users share a username, and a register of a username that a
\* user has returns False and leaves every table as it was.
C14_DuplicateRegister ==
    [][/\ \A u1, u2 \in users' : u1.username = u2.username => u1 = u2
       /\ (/\ last'.op = "register"
           /\ \E u \in users : u.username = last'.args[1])
             => (last'.ret = FALSE /\ tables' = tables)]_vars

\* alice and Alice are both registered (the match is exact), and the call
\* before was a refused register of alice under another password
C14_Witness ==
    /\ last.op = "register" /\ last.ret = FALSE
    /\ last.args = <<"alice", "pw2">>
    /\ \E u \in users : u.username = "alice" /\ u.password_hash = hash_password("pw1", 1)
    /\ \E u \in users : u.username = "Alice"

-----------------------------------------------------------------------------
(* C15 *)

\* the password a user row was registered with
Registered(u) == u.password_hash[1]

\* C15: a login on a store that is there returns the id of the user of its username when its password
\* is the one that user registered with, and no id when there is no such
\* user or the password is another; a login that follows the register of
\* its username returns an id exactly when the passwords are the same.
C15_LoginAfterRegister ==
    (last.op = "login" /\ last.exc = "none") =>
        LET hit == {u \in users : u.username = last.args[1]
                                  /\ Registered(u) = last.args[2]}
        IN  /\ hit = {} => last.ret = None
            /\ \A u \in hit : last.ret = Some(u.id)
            /\ last.prev # <<>> => (last.ret # None <=> last.prev[1] = last.args[2])

\* a login with another password than the one just registered, refused
\* while the user is there
C15_Witness ==
    /\ last.op = "login" /\ last.prev = <<"pw1">> /\ last.args[2] = "pw2"
    /\ last.ret = None
    /\ \E u \in users : u.username = last.args[1]

-----------------------------------------------------------------------------
(* C16 *)

\* C16: a restore_db that returns leaves the store as it was when backup_db
\* last wrote the path, whatever was done in between: the tables are those
\* tables, and every user of them logs in with the password registered.
C16_BackupRestore ==
    (last.op = "restore_db" /\ last.exc = "none") =>
        LET path == last.args[1]
        IN  /\ ~IsNone(files.taken[path])
            /\ DB = Val(files.taken[path]).db
            /\ files.store = Val(files.taken[path]).store
            /\ \A u \in Val(files.taken[path]).db.users :
                  files.store = "ok" =>
                      login(DB, u.username, Registered(u)).ret = Some(u.id)

\* a restore over a store that was lost after the backup, of a backup with a
\* user and a transaction
C16_Witness ==
    /\ last.op = "restore_db" /\ last.exc = "none"
    /\ last.prev = <<"missing">>
    /\ files.store = "ok"
    /\ users # {} /\ transactions # {}

-----------------------------------------------------------------------------
(* C18 *)

\* the date and time that the first text writes is before that of the second
Before(a, b) ==
    LET x == fromisoformat(a)
        y == fromisoformat(b)
        day(d) == (d.year * 12 + d.month) * 31 + d.day
    IN  /\ x.ok /\ y.ok
        /\ \/ day(x) < day(y)
           \/ day(x) = day(y) /\ x.second < y.second

\* C18 (as claimed): a list result holds transactions of the user only, each
\* once, at most limit of them, from the newest occurred_at to the oldest,
\* and no transaction of the user that it leaves out is newer than one it
\* holds; it leaves none out when the user has no more than limit.
C18_ListNewestFirst ==
    last.op = "list_transactions" =>
        LET rows == last.ret
            mine == {t \in transactions : t.user_id = last.args[1]}
            listed == {rows[i].id : i \in 1..Len(rows)}
        IN  /\ listed \subseteq Ids(mine)
            /\ Cardinality(listed) = Len(rows)
            /\ Len(rows) = Min(last.args[2], Cardinality(mine))
            /\ \A i, j \in 1..Len(rows) :
                  i < j => ~Before(rows[i].occurred_at, rows[j].occurred_at)
            /\ \A t \in mine : \A i \in 1..Len(rows) :
                  t.id \notin listed => ~Before(rows[i].occurred_at, t.occurred_at)

-----------------------------------------------------------------------------
(* C19 *)

\* C19 (as claimed): the income and the expense of a monthly report are the
\* sums of the amounts of the user's incomes and expenses dated in the
\* month, from its first day up to but not with the first day of the next.
C19_MonthlyInterval ==
    last.op = "report_monthly" =>
        LET in_month(ty) ==
                {t \in transactions :
                    /\ t.user_id = last.args[1] /\ t.type = ty
                    /\ OccursIn(t.occurred_at, last.args[2], last.args[3])}
        IN  /\ last.ret.totals.income = SumAmount(in_month("income"))
            /\ last.ret.totals.expense = SumAmount(in_month("expense"))

-----------------------------------------------------------------------------
(* C20 *)

\* the sum of the totals of a breakdown
RECURSIVE SumTotals(_)
SumTotals(bd) == IF bd = <<>> THEN 0 ELSE bd[1][2] + SumTotals(Tail(bd))

\* the label the claim gives an expense: the name of its category, or
\* Uncategorized when it has none
LabelOf(t) ==
    IF t.category_id = NULL THEN "Uncategorized"
    ELSE (CHOOSE c \in categories : c.id = t.category_id).name

\* C20 (as claimed): the breakdown of a monthly report has one entry for
\* each label of the user's expenses of the month, the entry's total is the
\* sum of the expenses of that label, the totals do not rise from one entry
\* to the next, and they sum to the report's expense total.
C20_Breakdown ==
    last.op = "report_monthly" =>
        LET bd == last.ret.expense_by_category
            exp == {t \in transactions :
                       /\ t.user_id = last.args[1] /\ t.type = "expense"
                       /\ OccursIn(t.occurred_at, last.args[2], last.args[3])}
            labels == {LabelOf(t) : t \in exp}
        IN  /\ {bd[i][1] : i \in 1..Len(bd)} = labels
            /\ Len(bd) = Cardinality(labels)
            /\ \A i \in 1..Len(bd) :
                  bd[i][2] = SumAmount({t \in exp : LabelOf(t) = bd[i][1]})
            /\ \A i \in 1..(Len(bd) - 1) : bd[i][2] >= bd[i + 1][2]
            /\ SumTotals(bd) = last.ret.totals.expense

-----------------------------------------------------------------------------
(* C21 *)

\* process p returned from a set_budget
ReturnedBudget(p) ==
    pc[p] = "idle" /\ frame[p].op = "set_budget" /\ frame[p].exc = "none"

\* the processes have returned from set_budget calls of the same key, and
\* the store has one category row of the name and one budget row of the key,
\* with the amount of one of the calls
Converged(p, q) ==
    LET user_id == frame[p].args[1]
        cats == {c \in categories : c.user_id = user_id /\ c.name = frame[p].args[2]}
        rows == {b \in budgets :
                    /\ b.user_id = user_id /\ b.category_id \in Ids(cats)
                    /\ b.month = frame[p].args[4] /\ b.year = frame[p].args[5]}
    IN  /\ Cardinality(cats) = 1
        /\ Cardinality(rows) = 1
        /\ \A b \in rows : b.amount \in {frame[p].args[3], frame[q].args[3]}
        /\ frame[p].ret = TRUE /\ frame[q].ret = TRUE

\* C21: a set_budget call that has started returns, and whenever two
\* processes have returned from set_budget calls of the same (user, category
\* name, month, year), the store has exactly one category row of the name
\* and exactly one budget row of the key, with the amount of one of the two.
C21_ConcurrentSetBudget ==
    /\ [](\A p, q \in Procs :
             (/\ p # q /\ ReturnedBudget(p) /\ ReturnedBudget(q)
              /\ frame[p].args[1] = frame[q].args[1]
              /\ frame[p].args[2] = frame[q].args[2]
              /\ frame[p].args[4] = frame[q].args[4]
              /\ frame[p].args[5] = frame[q].args[5])
                 => Converged(p, q))
    /\ \A p \in Procs : (pc[p] # "idle") ~> ReturnedBudget(p)

\* two set_budget calls of different amounts that both started while the
\* user had no category Gym, and both returned
C21_Witness ==
    \E p, q \in Procs :
        /\ p # q /\ ReturnedBudget(p) /\ ReturnedBudget(q)
        /\ frame[p].absent /\ frame[q].absent
        /\ frame[p].created /\ ~frame[q].created
        /\ frame[p].args[3] # frame[q].args[3]
        /\ Converged(p, q)

-----------------------------------------------------------------------------
(* C22 *)

\* the total `key` of report_monthly(user_id, m, year), summed over the
\* months 1..month
RECURSIVE MonthlySum(_, _, _, _)
MonthlySum(user_id, year, key, month) ==
    IF month = 0 THEN 0
    ELSE (CHOOSE r \in report_monthly(DB, user_id, month, year) : TRUE).totals[key]
             + MonthlySum(user_id, year, key, month - 1)

\* the totals of the yearly report are the sums of the twelve monthly ones
YearlyIsSum ==
    \A key \in {"income", "expense", "savings"} :
        last.ret.totals[key] = MonthlySum(last.args[1], last.args[2], key, 12)

\* the user's transactions of the type dated in the year
OfYear(user_id, ty, year) ==
    {t \in transactions :
        /\ t.user_id = user_id /\ t.type = ty
        /\ fromisoformat(t.occurred_at).ok
        /\ fromisoformat(t.occurred_at).year = year}

\* the yearly report counts the transactions dated in the year, and no other
YearlyCountsYear ==
    /\ last.ret.totals.income =
           SumAmount(OfYear(last.args[1], "income", last.args[2]))
    /\ last.ret.totals.expense =
           SumAmount(OfYear(last.args[1], "expense", last.args[2]))

\* C22 (as claimed): the income, expense and savings of report_yearly(user,
\* year) are the sums of the same totals of report_monthly(user, m, year)
\* for m = 1..12, and they count the user's transactions dated from
\* 1 January of the year to before 1 January of the next, and no other.
C22_YearlyIsSumOfMonths ==
    last.op = "report_yearly" => YearlyIsSum /\ YearlyCountsYear

\* the first half alone
C22_SumOnly == last.op = "report_yearly" => YearlyIsSum

-----------------------------------------------------------------------------
(* C23 *)

\* the row's category is a row of the categories of the row's user
OwnCategory(row) ==
    \E c \in categories : c.id = row.category_id /\ c.user_id = row.user_id

\* the name of the row's category
CategoryName(row) == (CHOOSE c \in categories : c.id = row.category_id).name

\* C23: the category of a transaction, and the category of a budget, is a
\* category of the user of that transaction or budget.
C23_CategoryOfOwner ==
    /\ \A t \in transactions : t.category_id # NULL => OwnCategory(t)
    /\ \A b \in budgets : OwnCategory(b)

\* two users with a transaction each and a budget each in categories of the
\* same name, each in the user's own row of the name, right after an update
\* that moved a transaction to the category
C23_Witness ==
    /\ last.op = "update_transaction" /\ last.ret = TRUE
    /\ \E t1, t2 \in transactions :
          /\ t1.user_id # t2.user_id
          /\ t1.id = last.args[2]
          /\ t1.category_id # NULL /\ t2.category_id # NULL
          /\ OwnCategory(t1) /\ OwnCategory(t2)
          /\ t1.category_id # t2.category_id
          /\ CategoryName(t1) = CategoryName(t2)
    /\ \E b1, b2 \in budgets :
          /\ b1.user_id # b2.user_id
          /\ OwnCategory(b1) /\ OwnCategory(b2)
          /\ CategoryName(b1) = CategoryName(b2)

====
